---------------------------- MODULE Spec2Model ----------------------------
(***************************************************************************)
(* A model of the rule repository of mcp-markdown-rules (src/src/index.ts):*)
(* the directory scanner getProjectRules, the cache getCachedProjectRules, *)
(* the file-watch callback, the keyboard restart and the two request       *)
(* handlers.  JavaScript runs every handler to completion on one thread,   *)
(* so each handler is one action.                                          *)
(*                                                                         *)
(* Strings the code inspects character by character (file names, group     *)
(* names, keys) are sequences of one-character strings; file contents are  *)
(* opaque strings.                                                         *)
(***************************************************************************)
EXTENDS Integers, Sequences, FiniteSets, TLC

(***************************************************************************)
(* Bounds of the model.                                                    *)
(***************************************************************************)
\* how many times the clock advances in one behaviour
MaxTicks == 2
\* how many invalidations are counted between two reads
MaxInvals == 2
\* how many entries the root directory has in the scanner's specification
MaxEntries == 2
\* the most arguments that follow the switches on a command line
MaxArgs == 4

(***************************************************************************)
(* Program constants.                                                      *)
(***************************************************************************)
\* now - lastScanTime > 5000
TTL == 5000
\* Date.now() when the process starts: epoch milliseconds, far above TTL
StartTime == 100000

(***************************************************************************)
(* Characters and strings.                                                 *)
(***************************************************************************)
Lower == <<"a","b","c","d","e","f","g","h","i","j","k","l","m",
           "n","o","p","q","r","s","t","u","v","w","x","y","z">>
Upper == <<"A","B","C","D","E","F","G","H","I","J","K","L","M",
           "N","O","P","Q","R","S","T","U","V","W","X","Y","Z">>

\* String.prototype.toUpperCase, one character
UpperChar(c) ==
  IF \E i \in 1..Len(Lower) : Lower[i] = c
  THEN Upper[CHOOSE i \in 1..Len(Lower) : Lower[i] = c]
  ELSE c

\* String.prototype.toUpperCase
ToUpperCase(s) == [i \in 1..Len(s) |-> UpperChar(s[i])]

\* the literal '.md'
DotMd == <<".","m","d">>

\* String.prototype.endsWith
EndsWith(s, suffix) ==
  /\ Len(s) >= Len(suffix)
  /\ SubSeq(s, Len(s) - Len(suffix) + 1, Len(s)) = suffix

\* the positions at which pat occurs in s
Occurrences(s, pat) ==
  { i \in 1..(Len(s) - Len(pat) + 1) : SubSeq(s, i, i + Len(pat) - 1) = pat }

\* String.prototype.replace(pat, '') with a string pattern: the FIRST
\* occurrence only is removed
ReplaceFirst(s, pat) ==
  IF Occurrences(s, pat) = {} THEN s
  ELSE LET i == CHOOSE j \in Occurrences(s, pat) :
                   \A k \in Occurrences(s, pat) : j <= k
       IN SubSeq(s, 1, i - 1) \o SubSeq(s, i + Len(pat), Len(s))

README_md == <<"R","E","A","D","M","E",".","m","d">>
OVERVIEW == <<"O","V","E","R","V","I","E","W">>
ALL == <<"A","L","L">>

\* a derivation that takes README.md in any letter case for the overview
DeriveKeyAnyCase(toolName, file) ==
  IF ToUpperCase(file) = ToUpperCase(README_md)
  THEN toolName \o <<"-">> \o OVERVIEW
  ELSE toolName \o <<"-">> \o ToUpperCase(ReplaceFirst(file, DotMd))

\* a derivation that leaves the group out of the key
DeriveKeyBare(toolName, file) ==
  IF file = README_md THEN OVERVIEW
  ELSE ToUpperCase(ReplaceFirst(file, DotMd))

\* the key of one file: lines 129-132
DeriveKey(toolName, file) ==
  IF file = README_md
  THEN toolName \o <<"-">> \o OVERVIEW
  ELSE toolName \o <<"-">> \o ToUpperCase(ReplaceFirst(file, DotMd))

(***************************************************************************)
(* A JavaScript object used as a string map: its own properties in         *)
(* insertion order, and the properties it inherits from Object.prototype.  *)
(***************************************************************************)
EmptyObj == << >>

ObjHas(o, k) == \E i \in 1..Len(o) : o[i].key = k

ObjIndex(o, k) == CHOOSE i \in 1..Len(o) : o[i].key = k

\* an assignment that keeps the value a key already has
ObjAssignFirstWins(o, k, v) ==
  IF ObjHas(o, k) THEN o ELSE Append(o, [key |-> k, value |-> v])

\* rules[key] = content: an existing key keeps its position
ObjAssign(o, k, v) ==
  IF ObjHas(o, k)
  THEN [o EXCEPT ![ObjIndex(o, k)].value = v]
  ELSE Append(o, [key |-> k, value |-> v])

\* Object.keys
ObjKeys(o) == [i \in 1..Len(o) |-> o[i].key]

KeySet(o) == { o[i].key : i \in 1..Len(o) }

\* properties every object literal inherits (a few of them)
ObjectPrototypeKeys ==
  { <<"c","o","n","s","t","r","u","c","t","o","r">>,
    <<"t","o","S","t","r","i","n","g">> }

\* rules[k]: an own property, else an inherited one, else undefined
ObjGet(o, k) ==
  IF ObjHas(o, k) THEN [t |-> "string", v |-> o[ObjIndex(o, k)].value]
  ELSE IF k \in ObjectPrototypeKeys THEN [t |-> "function", v |-> ""]
  ELSE [t |-> "undefined", v |-> ""]

\* the truthiness test of `else if (rules[ruleType])`
Truthy(x) == x.t = "function" \/ (x.t = "string" /\ x.v # "")

(***************************************************************************)
(* The filesystem under the rules directory.  A filesystem is              *)
(*   [root |-> "missing" | "file" | "dir", entries |-> <<dirent, ...>>]    *)
(* with the entries in the order readdirSync returns them.  A dirent of    *)
(* the root is [name, isDir, listable, files]; listable = FALSE is a group *)
(* directory whose readdirSync throws (EACCES).  A file of a group is      *)
(* [name, readable, content]; readable = FALSE is an entry whose           *)
(* readFileSync throws (a directory, EISDIR; a file without permission).   *)
(***************************************************************************)
general == <<"g","e","n","e","r","a","l">>
git == <<"g","i","t">>
docs == <<"d","o","c","s">>
RULES_md == <<"R","U","L","E","S",".","m","d">>
EMPTY_md == <<"E","M","P","T","Y",".","m","d">>
a_md == <<"a",".","m","d">>
x_md == <<"x",".","m","d">>
notes_txt == <<"n","o","t","e","s",".","t","x","t">>
\* a directory inside a group: readFileSync on it would throw
sub == <<"s","u","b">>
\* names in other letter cases, with '.md' inside, with other characters
Git == <<"G","i","t">>
General == <<"G","e","n","e","r","a","l">>
OVERVIEW_md == <<"O","V","E","R","V","I","E","W",".","m","d">>
all_md == <<"a","l","l",".","m","d">>
v1_2 == <<"v","1",".","2">>
readme_md == <<"r","e","a","d","m","e",".","m","d">>
Readme_md == <<"R","e","a","d","m","e",".","m","d">>
a_md_md == <<"a",".","m","d",".","m","d">>
x_mdy_md == <<"x",".","m","d","y",".","m","d">>
my_file_md == <<"m","y"," ","f","i","l","e",".","m","d">>
coding_standards_md ==
  <<"c","o","d","i","n","g","-","s","t","a","n","d","a","r","d","s",".","m","d">>
api_v2_md == <<"a","p","i","_","v","2",".","m","d">>

File(name, content) == [name |-> name, readable |-> TRUE, content |-> content]
Unreadable(name) == [name |-> name, readable |-> FALSE, content |-> ""]
Dir(name, files) ==
  [name |-> name, isDir |-> TRUE, listable |-> TRUE, files |-> files]
LockedDir(name) ==
  [name |-> name, isDir |-> TRUE, listable |-> FALSE, files |-> << >>]
RootFile(name) ==
  [name |-> name, isDir |-> FALSE, listable |-> FALSE, files |-> << >>]
Root(entries) == [root |-> "dir", entries |-> entries]

FsMissing == [root |-> "missing", entries |-> << >>]
FsNotDir == [root |-> "file", entries |-> << >>]
FsEmpty == Root(<< >>)
\* the scenario of the specification's section 8
FsScenario ==
  Root(<< Dir(general, << File(README_md, "# Overview"),
                          File(RULES_md, "# Rules") >>) >>)
\* the same after `mv general git` and the loss of one document
FsRenamed == Root(<< Dir(git, << File(README_md, "# Overview") >>) >>)

\* the filesystems of the cache's specification
Filesystems == { FsMissing, FsNotDir, FsEmpty, FsScenario, FsRenamed }

\* the root entries of the scanner's specification: a plain file, a group
\* that cannot be listed, a group whose second document cannot be read, a
\* group with a document of zero bytes and a non-document, ordinary groups,
\* a group whose two documents derive one key and whose name differs from
\* another group's in letter case only
RootEntries ==
  { RootFile(notes_txt),
    LockedDir(general),
    Dir(general, << File(README_md, "# Overview"),
                    File(RULES_md, "# Rules") >>),
    Dir(git, << File(RULES_md, "# Git rules"), Unreadable(x_md),
                File(README_md, "# Git") >>),
    Dir(docs, << File(EMPTY_md, ""), File(notes_txt, "n"),
                 Unreadable(sub), File(a_md, "# A") >>),
    Dir(General, << File(OVERVIEW_md, "# First"),
                    File(README_md, "# Second") >>) }

\* the sequences of at most n entries with distinct names
RECURSIVE EntryLists(_)
EntryLists(n) ==
  IF n = 0 THEN { << >> }
  ELSE LET shorter == EntryLists(n - 1)
       IN shorter \cup
          { Append(l, e) : l \in { x \in shorter : Len(x) = n - 1 },
                           e \in RootEntries }

DistinctNames(l) == \A i, j \in 1..Len(l) : l[i].name = l[j].name => i = j

\* the filesystems of the scanner's specification
ScanFilesystems ==
  { FsMissing, FsNotDir } \cup
  { Root(l) : l \in { x \in EntryLists(MaxEntries) : DistinctNames(x) } }

\* the names of the key derivation's specification
GroupNames == { general, Git, v1_2 }

FileNames ==
  { README_md, readme_md, Readme_md, RULES_md, a_md, a_md_md, x_mdy_md,
    my_file_md, coding_standards_md, api_v2_md, all_md }

\* one group holding one document, for every pair of names
DeriveFilesystems ==
  { Root(<< Dir(g, << File(f, "# Text") >>) >>) :
      g \in GroupNames, f \in FileNames }

(***************************************************************************)
(* getProjectRules, lines 99-147.  Every step yields [threw, rules]: rules *)
(* is the object built so far (it is mutated in place), threw says that an *)
(* exception is propagating.                                               *)
(***************************************************************************)
Returned(rules) == [threw |-> FALSE, rules |-> rules]
Thrown(rules) == [threw |-> TRUE, rules |-> rules]

\* a scan of one file that does not look at the extension
ScanFileAnyName(toolName, f, rules) ==
  IF f.readable
  THEN Returned(ObjAssign(rules, DeriveKey(toolName, f.name), f.content))
  ELSE Thrown(rules)

\* the body of toolFiles.forEach for one file, lines 124-135
ScanFile(toolName, f, rules) ==
  IF EndsWith(f.name, DotMd)
  THEN IF f.readable
       THEN Returned(ObjAssign(rules, DeriveKey(toolName, f.name), f.content))
       ELSE Thrown(rules)
  ELSE Returned(rules)

\* toolFiles.forEach, lines 123-136: an exception ends the loop
RECURSIVE ScanFiles(_, _, _)
ScanFiles(toolName, files, rules) ==
  IF files = << >> THEN Returned(rules)
  ELSE LET r == ScanFile(toolName, Head(files), rules)
       IN IF r.threw THEN r ELSE ScanFiles(toolName, Tail(files), r.rules)

\* catch (error) { console.error(...) } of one group, lines 137-139
CatchGroup(r) == Returned(r.rules)

\* the try block of one group, lines 116-139
ScanGroup(entry, rules) ==
  CatchGroup(IF entry.listable
             THEN ScanFiles(ToUpperCase(entry.name), entry.files, rules)
             ELSE Thrown(rules))

\* entries.forEach, lines 114-141
RECURSIVE ScanEntries(_, _)
ScanEntries(entries, rules) ==
  IF entries = << >> THEN Returned(rules)
  ELSE LET r == IF Head(entries).isDir
                THEN ScanGroup(Head(entries), rules)
                ELSE Returned(rules)
       IN IF r.threw THEN r ELSE ScanEntries(Tail(entries), r.rules)

\* a scan whose outer try does not catch
CatchScanRethrow(r) == r

\* catch (error) { console.error(...) } of the whole scan, lines 142-144
CatchScan(r) == Returned(r.rules)

\* getProjectRules: existsSync, then readdirSync of the root (it throws
\* ENOTDIR when the root is not a directory), then the groups
GetProjectRules(f) ==
  CatchScan(IF f.root = "missing" THEN Returned(EmptyObj)
            ELSE IF f.root # "dir" THEN Thrown(EmptyObj)
            ELSE ScanEntries(f.entries, EmptyObj))

(***************************************************************************)
(* getCachedProjectRules, lines 150-166.  The result carries the mapping   *)
(* returned, the new values of rulesCache and lastScanTime, and the number *)
(* of calls of getProjectRules it made.                                    *)
(***************************************************************************)
\* a rescan as soon as the age reaches the limit
NeedsRescanAtTTL(cache, lst, t) == Len(cache) = 0 \/ t - lst >= TTL

\* a condition that does not look at the age of the cache
NeedsRescanWhenEmpty(cache, lst, t) == Len(cache) = 0

\* the condition of lines 154-158 (rulesCache is always an object)
NeedsRescan(cache, lst, t) == Len(cache) = 0 \/ t - lst > TTL

\* a cache that keeps what it holds when the scan finds nothing
GetCachedKeepsPrior(cache, lst, t, f) ==
  IF NeedsRescan(cache, lst, t)
  THEN LET r == GetProjectRules(f)
       IN IF r.threw \/ Len(r.rules) = 0
          THEN [threw |-> FALSE, rules |-> cache, cache |-> cache,
                lastScanTime |-> lst, scans |-> 1]
          ELSE [threw |-> FALSE, rules |-> r.rules, cache |-> r.rules,
                lastScanTime |-> t, scans |-> 1]
  ELSE [threw |-> FALSE, rules |-> cache, cache |-> cache,
        lastScanTime |-> lst, scans |-> 0]

\* Object.assign(rulesCache, getProjectRules()): a rescan that writes the
\* entries found into the mapping held
RECURSIVE AssignAll(_, _)
AssignAll(o, entries) ==
  IF entries = << >> THEN o
  ELSE AssignAll(ObjAssign(o, Head(entries).key, Head(entries).value),
                 Tail(entries))

\* a cache that merges the new scan into the old snapshot
GetCachedMerging(cache, lst, t, f) ==
  IF NeedsRescan(cache, lst, t)
  THEN LET r == GetProjectRules(f)
       IN IF r.threw
          THEN [threw |-> TRUE, rules |-> EmptyObj, cache |-> cache,
                lastScanTime |-> lst, scans |-> 1]
          ELSE [threw |-> FALSE, rules |-> AssignAll(cache, r.rules),
                cache |-> AssignAll(cache, r.rules),
                lastScanTime |-> t, scans |-> 1]
  ELSE [threw |-> FALSE, rules |-> cache, cache |-> cache,
        lastScanTime |-> lst, scans |-> 0]

\* getCachedProjectRules, lines 150-166
GetCachedProjectRules(cache, lst, t, f) ==
  IF NeedsRescan(cache, lst, t)
  THEN LET r == GetProjectRules(f)
       IN IF r.threw
          THEN [threw |-> TRUE, rules |-> EmptyObj, cache |-> cache,
                lastScanTime |-> lst, scans |-> 1]
          ELSE [threw |-> FALSE, rules |-> r.rules, cache |-> r.rules,
                lastScanTime |-> t, scans |-> 1]
  ELSE [threw |-> FALSE, rules |-> cache, cache |-> cache,
        lastScanTime |-> lst, scans |-> 0]

(***************************************************************************)
(* parseArguments, lines 14-58, and the start of the process, lines        *)
(* 356-362.  Arguments and paths are strings of characters; the empty      *)
(* sequence is the empty string.                                           *)
(***************************************************************************)
opt_watch == <<"-","-","w","a","t","c","h">>
opt_w == <<"-","w">>
opt_keyboard == <<"-","-","k","e","y","b","o","a","r","d">>
opt_k == <<"-","k">>
opt_help == <<"-","-","h","e","l","p">>
opt_h == <<"-","h">>
opt_rules_dir == <<"-","-","r","u","l","e","s","-","d","i","r">>
opt_r == <<"-","r">>

\* './rules', line 20
DefaultRulesDir == <<".","/","r","u","l","e","s">>

\* join(currentDir, '..', 'rules'), lines 101 and 171
BundledRulesDir == <<"d","i","s","t","/",".",".","/","r","u","l","e","s">>

\* String.prototype.startsWith
StartsWith(s, prefix) ==
  /\ Len(s) >= Len(prefix)
  /\ SubSeq(s, 1, Len(prefix)) = prefix

\* process.env.MCP_RULES_DIR: undefined when the variable is not set
EnvUnset == [set |-> FALSE, value |-> << >>]

EnvSet(v) == [set |-> TRUE, value |-> v]

\* the options object of lines 16-21
DefaultOptions(env) ==
  [watch |-> FALSE, keyboard |-> FALSE, help |-> FALSE,
   rulesDir |-> IF env.set /\ env.value # << >> THEN env.value
                ELSE DefaultRulesDir]

\* process.exit(1) inside the loop, lines 45-50
ExitParse(opts) == [options |-> opts, exit |-> TRUE]

\* a loop in which the first --rules-dir wins
RECURSIVE ParseFromFirstWins(_, _, _, _)
ParseFromFirstWins(args, i, opts, seen) ==
  IF i > Len(args) THEN [options |-> opts, exit |-> FALSE]
  ELSE IF args[i] \in { opt_watch, opt_w }
  THEN ParseFromFirstWins(args, i + 1, [opts EXCEPT !.watch = TRUE], seen)
  ELSE IF args[i] \in { opt_keyboard, opt_k }
  THEN ParseFromFirstWins(args, i + 1, [opts EXCEPT !.keyboard = TRUE], seen)
  ELSE IF args[i] \in { opt_help, opt_h }
  THEN ParseFromFirstWins(args, i + 1, [opts EXCEPT !.help = TRUE], seen)
  ELSE IF args[i] \in { opt_rules_dir, opt_r }
  THEN IF i + 1 <= Len(args)
       THEN IF args[i + 1] # << >> /\ ~StartsWith(args[i + 1], <<"-">>)
            THEN ParseFromFirstWins(args, i + 2,
                                    IF seen THEN opts
                                    ELSE [opts EXCEPT !.rulesDir = args[i + 1]],
                                    TRUE)
            ELSE ExitParse(opts)
       ELSE ExitParse(opts)
  ELSE ParseFromFirstWins(args, i + 1, opts, seen)

ParseFirstWins(args, i, opts) == ParseFromFirstWins(args, i, opts, FALSE)

\* the loop of lines 23-55 from the argument at position i (counted from
\* one) on; an argument that is no option is skipped
RECURSIVE ParseFrom(_, _, _)
ParseFrom(args, i, opts) ==
  IF i > Len(args) THEN [options |-> opts, exit |-> FALSE]
  ELSE IF args[i] \in { opt_watch, opt_w }
  THEN ParseFrom(args, i + 1, [opts EXCEPT !.watch = TRUE])
  ELSE IF args[i] \in { opt_keyboard, opt_k }
  THEN ParseFrom(args, i + 1, [opts EXCEPT !.keyboard = TRUE])
  ELSE IF args[i] \in { opt_help, opt_h }
  THEN ParseFrom(args, i + 1, [opts EXCEPT !.help = TRUE])
  ELSE IF args[i] \in { opt_rules_dir, opt_r }
  THEN IF i + 1 <= Len(args)
       THEN IF args[i + 1] # << >> /\ ~StartsWith(args[i + 1], <<"-">>)
            THEN ParseFrom(args, i + 2, [opts EXCEPT !.rulesDir = args[i + 1]])
            ELSE ExitParse(opts)
       ELSE ExitParse(opts)
  ELSE ParseFrom(args, i + 1, opts)

\* parseArguments
ParseArguments(args, env) == ParseFrom(args, 1, DefaultOptions(env))

\* lines 357-362: the process goes on unless parseArguments or showHelp
\* (line 79) left it
StatusAfter(parsed) ==
  IF parsed.exit THEN "exit 1"
  ELSE IF parsed.options.help THEN "exit 0"
  ELSE "running"

\* `options.rulesDir || join(currentDir, '..', 'rules')`, lines 101 and 171
RulesDir(opts) ==
  IF opts.rulesDir # << >> THEN opts.rulesDir ELSE BundledRulesDir

(***************************************************************************)
(* The handlers.  Each yields a record with the response, the new values   *)
(* of rulesCache and lastScanTime, the mapping read() gave it and the      *)
(* number of scanner calls it made.                                        *)
(***************************************************************************)
NoText == [t |-> "undefined", v |-> ""]

Response(kind, enum, text, sections, error, arg) ==
  [kind |-> kind, enum |-> enum, text |-> text, sections |-> sections,
   error |-> error, arg |-> arg]

NoResponse == Response("none", << >>, NoText, << >>, "", << >>)
\* an exception that is none of the handler's own errors
Crash == Response("crash", << >>, NoText, << >>, "", << >>)
ErrorResponse(msg, arg) == Response("error", << >>, NoText, << >>, msg, arg)

Outcome(resp, c, read) ==
  [resp |-> resp, cache |-> c.cache, lastScanTime |-> c.lastScanTime,
   rules |-> c.rules, scans |-> c.scans, read |-> read]

\* a handler that did not call getCachedProjectRules
Untouched(resp, cache, lst) ==
  [resp |-> resp, cache |-> cache, lastScanTime |-> lst,
   rules |-> EmptyObj, scans |-> 0, read |-> FALSE]

\* an enum without the reserved literal
AvailableRuleTypesNoAll(rules) == ObjKeys(rules)

\* getAvailableRuleTypes, lines 219-222: the enum of the keys
AvailableRuleTypes(rules) == ObjKeys(rules) \o << ALL >>

\* the ListToolsRequestSchema handler, lines 225-247
ListTools(cache, lst, t, f) ==
  LET c == GetCachedProjectRules(cache, lst, t, f)
  IN Outcome(IF c.threw THEN Crash
             ELSE Response("tools", AvailableRuleTypes(c.rules), NoText,
                           << >>, "", << >>),
             c, TRUE)

\* A text assembled from several strings is the sequence of its pieces: a
\* literal of the program, a key, or the content of a file.
Lit(x) == [piece |-> "literal", lit |-> x, key |-> << >>, content |-> ""]

KeyPiece(k) == [piece |-> "key", lit |-> "", key |-> k, content |-> ""]

ContentPiece(c) == [piece |-> "content", lit |-> "", key |-> << >>,
                    content |-> c]

\* the template `## ${key}\n\n${value}`, line 266
Section(key, value) ==
  << Lit("## "), KeyPiece(key), Lit("\n\n"), ContentPiece(value) >>

\* Object.entries(rules).map(...), lines 264-267: one section per entry, in
\* the order of the entries
RECURSIVE Sections(_)
Sections(rules) ==
  IF rules = << >> THEN << >>
  ELSE << Section(Head(rules).key, Head(rules).value) >>
       \o Sections(Tail(rules))

\* the separator of .join('\n\n---\n\n'), line 268
Separator == Lit("\n\n---\n\n")

\* a join that also ends the text with the separator
RECURSIVE JoinTrailing(_)
JoinTrailing(parts) ==
  IF parts = << >> THEN << >>
  ELSE Head(parts) \o << Separator >> \o JoinTrailing(Tail(parts))

\* Array.prototype.join, line 268: the separator stands between two
\* sections, and the join of no section is the empty text
RECURSIVE Join(_)
Join(parts) ==
  IF parts = << >> THEN << >>
  ELSE IF Len(parts) = 1 THEN Head(parts)
  ELSE Head(parts) \o << Separator >> \o Join(Tail(parts))

\* the answer for one rule type, lines 261-283
Answer(rules, ruleType) ==
  IF ruleType = ALL
  THEN Response("content", << >>, [t |-> "sections", v |-> ""],
                Join(Sections(rules)), "", ruleType)
  ELSE IF Truthy(ObjGet(rules, ruleType))
  THEN Response("content", << >>, ObjGet(rules, ruleType), << >>, "",
                ruleType)
  ELSE ErrorResponse("Unknown rule type", ruleType)

\* a handler that reads the cache before it looks at the request
CallToolReadsFirst(cache, lst, t, f, name, hasRuleType, ruleType) ==
  LET c == GetCachedProjectRules(cache, lst, t, f)
  IN IF name # "get_project_rules"
     THEN Outcome(ErrorResponse("Unknown tool", << >>), c, FALSE)
     ELSE IF ~hasRuleType
     THEN Outcome(ErrorResponse("rule_type argument is required", << >>),
                  c, FALSE)
     ELSE Outcome(IF c.threw THEN Crash ELSE Answer(c.rules, ruleType),
                  c, TRUE)

\* the CallToolRequestSchema handler, lines 250-287
CallTool(cache, lst, t, f, name, hasRuleType, ruleType) ==
  IF name # "get_project_rules"
  THEN Untouched(ErrorResponse("Unknown tool", << >>), cache, lst)
  ELSE IF ~hasRuleType
  THEN Untouched(ErrorResponse("rule_type argument is required", << >>),
                 cache, lst)
  ELSE LET c == GetCachedProjectRules(cache, lst, t, f)
       IN Outcome(IF c.threw THEN Crash ELSE Answer(c.rules, ruleType),
                  c, TRUE)

\* `filename && filename.endsWith('.md')`, line 185; the empty sequence
\* stands for a missing file name (null and '' are both falsy)
NoFilename == << >>
IsRuleChange(filename) == filename # NoFilename /\ EndsWith(filename, DotMd)

\* an invalidation that forgets to reset the cache
InvalidatedNot(cache, lst) == [cache |-> cache, lastScanTime |-> lst]

\* an invalidation that marks the cache stale and keeps the mapping
InvalidatedMarkerOnly(cache, lst) == [cache |-> cache, lastScanTime |-> 0]

\* the cache after lines 189-190 and 321-322
Invalidated(cache, lst) == [cache |-> EmptyObj, lastScanTime |-> 0]

\* a callback that rescans at once instead of leaving it to the next read
WatchCallbackEager(cache, lst, f, eventType, filename) ==
  IF IsRuleChange(filename)
  THEN [resp |-> NoResponse, cache |-> GetProjectRules(f).rules,
        lastScanTime |-> 0, rules |-> EmptyObj, scans |-> 1, read |-> FALSE]
  ELSE Untouched(NoResponse, cache, lst)

\* the callback of watch(), lines 184-194
WatchCallback(cache, lst, f, eventType, filename) ==
  IF IsRuleChange(filename)
  THEN Untouched(NoResponse, Invalidated(cache, lst).cache,
                 Invalidated(cache, lst).lastScanTime)
  ELSE Untouched(NoResponse, cache, lst)

\* setupFileWatcher, lines 169-216: the watcher globalWatcher refers to
\* afterwards; none is created when the root does not exist
SetupFileWatcher(watcher, f) == IF f.root = "missing" THEN watcher ELSE "open"

\* case 'r' of the keyboard interface, lines 315-327
KeyRestart(cache, lst, f) ==
  Untouched(NoResponse, Invalidated(cache, lst).cache,
            Invalidated(cache, lst).lastScanTime)

\* globalWatcher after case 'r': closed, then set up again if it was set
RestartWatcher(watcher, f) ==
  IF watcher = "undefined" THEN watcher ELSE SetupFileWatcher("closed", f)

(***************************************************************************)
(* Object identity.  rulesCache refers to an object; a caller that keeps   *)
(* the mapping read() returned keeps a reference to the object the cache   *)
(* referred to then.  Of the objects only two matter, the one the cache    *)
(* refers to (its content is rulesCache) and the one the caller keeps      *)
(* (obj: its content now, was: its content when it was returned, alias:    *)
(* it is the object the cache refers to).                                  *)
(***************************************************************************)
NoCaller ==
  [tracking |-> FALSE, taken |-> FALSE, was |-> EmptyObj, obj |-> EmptyObj,
   alias |-> FALSE]

\* a caller that will keep the first mapping with entries it is given
KeepingCaller == [NoCaller EXCEPT !.tracking = TRUE]

\* an assignment that writes the value into the object the cache refers to
CallerAfterWriteThrough(c, value) ==
  [c EXCEPT !.obj = IF c.alias THEN value ELSE c.obj]

\* `rulesCache = getProjectRules()`, line 160 (the object made at line
\* 102), and `rulesCache = {}`, lines 189 and 321: the cache refers to a
\* new object, the object it referred to is not written to
CallerAfterAssign(c, value) == [c EXCEPT !.alias = FALSE]

\* `return rulesCache`, line 165, and `const rules =
\* getCachedProjectRules()`, lines 229 and 259: the caller is given the
\* object the cache refers to
CallerAfterReturn(c, rules) ==
  IF c.tracking /\ ~c.taken /\ Len(rules) >= 1
  THEN [c EXCEPT !.taken = TRUE, !.was = rules, !.obj = rules,
                 !.alias = TRUE]
  ELSE c

\* the caller's object after a handler with the outcome o; nothing is
\* followed when no caller keeps a reference
CallerAfterHandler(c, o) ==
  IF ~c.tracking THEN c
  ELSE IF o.read
  THEN CallerAfterReturn(IF o.scans > 0 THEN CallerAfterAssign(c, o.cache)
                         ELSE c,
                         o.rules)
  ELSE c

(***************************************************************************)
(* The state.                                                              *)
(***************************************************************************)
VARIABLES
  argv,          \* process.argv.slice(2)
  env,           \* process.env.MCP_RULES_DIR
  options,       \* line 357: what parseArguments() returned
  status,        \* "running", or how the process ended at its start
  fs,            \* the filesystem at the path the scanner opens
  now,           \* Date.now()
  rulesCache,    \* line 94
  lastScanTime,  \* line 95
  globalWatcher, \* line 96: "undefined", or the state of the watcher
  watched,       \* the directory the open watcher watches
  caller,        \* the object a caller keeps from an earlier read()
  ticks,         \* how often the clock advanced
  \* history, read by the properties only
  installed,     \* a scan of an existing root directory has been installed
  invalidated,   \* the cache was invalidated since the last such scan
  snap,          \* the mapping that scan produced
  snapTime,      \* the clock value that scan recorded
  invals,        \* invalidations since the last read()
  eventSeen,     \* a watch event was delivered since the last read()
  idleScans,     \* scanner calls made outside read() since the last read()
  last           \* the last handler that ran: its input, pre-state, outcome

\* what the start of the process fixes
startup == << argv, env, options, status >>

watcher == << globalWatcher, watched >>

vars ==
  << startup, fs, now, rulesCache, lastScanTime, watcher, caller, ticks,
     installed, invalidated, snap, snapTime, invals, eventSeen, idleScans,
     last >>

history ==
  << installed, invalidated, snap, snapTime, invals, eventSeen,
     idleScans >>

Pre ==
  [cache |-> rulesCache, lastScanTime |-> lastScanTime,
   installed |-> installed, invalidated |-> invalidated, snap |-> snap,
   snapTime |-> snapTime, invals |-> invals, eventSeen |-> eventSeen]

Last(op, o, arg, name) ==
  [op |-> op, read |-> o.read, scans |-> o.scans, rules |-> o.rules,
   resp |-> o.resp, arg |-> arg, name |-> name,
   dir |-> IF o.scans > 0 THEN RulesDir(options) ELSE << >>, pre |-> Pre]

\* no handler ran in the last step
Idle(op) ==
  [op |-> op, read |-> FALSE, scans |-> 0, rules |-> EmptyObj,
   resp |-> NoResponse, arg |-> << >>, name |-> "", dir |-> << >>,
   pre |-> [cache |-> EmptyObj, lastScanTime |-> 0, installed |-> FALSE,
            invalidated |-> FALSE, snap |-> EmptyObj, snapTime |-> 0,
            invals |-> 0, eventSeen |-> FALSE]]

NONEXISTENT_KEY ==
  <<"N","O","N","E","X","I","S","T","E","N","T","-","K","E","Y">>

\* the rule_type values a client sends: the keys held, the keys a scan
\* would find, ALL, a key of no document, names of inherited properties
RuleTypes(cache, f) ==
  KeySet(cache) \cup KeySet(GetProjectRules(f).rules)
    \cup ObjectPrototypeKeys \cup { ALL, NONEXISTENT_KEY }

\* the file names fs.watch reports (relative to the root): none, a group
\* directory, a document, another file
WatchFilenames ==
  { NoFilename, general, general \o <<"/">> \o README_md,
    general \o <<"/">> \o notes_txt }

TickSteps == { 1, TTL }

\* the state after the module's top-level code, lines 94-96 and 356-384
Started ==
  /\ options = ParseArguments(argv, env).options
  /\ status = StatusAfter(ParseArguments(argv, env))
  /\ now = StartTime
  /\ rulesCache = EmptyObj
  /\ lastScanTime = 0
  /\ globalWatcher =
       IF status = "running" /\ options.watch
       THEN SetupFileWatcher("undefined", fs)
       ELSE "undefined"
  /\ watched = IF globalWatcher = "open" THEN RulesDir(options) ELSE << >>
  /\ ticks = 0
  /\ installed = FALSE
  /\ invalidated = FALSE
  /\ snap = EmptyObj
  /\ snapTime = 0
  /\ invals = 0
  /\ eventSeen = FALSE
  /\ idleScans = 0
  /\ last = Idle("init")

\* the command lines of the cache's specification
StartArgs == { << >>, << opt_w >>, << opt_k >>, << opt_w, opt_k >> }

Init ==
  /\ fs \in Filesystems
  /\ argv \in StartArgs
  /\ env = EnvUnset
  /\ caller = NoCaller
  /\ Started

\* what a request handler leaves behind
Handled(op, o, arg, name) ==
  /\ status = "running"
  /\ rulesCache' = o.cache
  /\ lastScanTime' = o.lastScanTime
  /\ caller' = CallerAfterHandler(caller, o)
  /\ last' = Last(op, o, arg, name)
  /\ IF o.read
     THEN /\ invals' = 0
          /\ eventSeen' = FALSE
          /\ idleScans' = 0
     ELSE /\ idleScans' = idleScans + o.scans
          /\ UNCHANGED << invals, eventSeen >>
  /\ IF o.read /\ o.scans > 0
     THEN /\ installed' = (installed \/ fs.root = "dir")
          /\ invalidated' = (invalidated /\ fs.root # "dir")
          /\ snap' = IF fs.root = "dir" THEN o.rules ELSE snap
          /\ snapTime' = IF fs.root = "dir" THEN now ELSE snapTime
     ELSE UNCHANGED << installed, invalidated, snap, snapTime >>
  /\ UNCHANGED << startup, fs, now, ticks, watcher >>

\* a tools/list request
ListToolsRequest ==
  Handled("list", ListTools(rulesCache, lastScanTime, now, fs), << >>,
          "tools/list")

\* a tools/call request
CallToolRequest ==
  \E name \in { "get_project_rules", "other_tool" } :
  \E hasRuleType \in BOOLEAN :
  \E ruleType \in (IF hasRuleType /\ name = "get_project_rules"
                   THEN RuleTypes(rulesCache, fs) ELSE { << >> }) :
    Handled("call",
            CallTool(rulesCache, lastScanTime, now, fs, name, hasRuleType,
                     ruleType),
            ruleType,
            IF hasRuleType THEN name ELSE name \o " without rule_type")

\* fs.watch delivers an event to the callback of the open watcher
WatchEvent ==
  /\ status = "running"
  /\ globalWatcher = "open"
  /\ invals < MaxInvals
  /\ \E eventType \in { "rename", "change" } :
     \E filename \in WatchFilenames :
       LET o == WatchCallback(rulesCache, lastScanTime, fs, eventType,
                              filename)
       IN /\ rulesCache' = o.cache
          /\ lastScanTime' = o.lastScanTime
          /\ idleScans' = idleScans + o.scans
          /\ caller' = IF IsRuleChange(filename)
                       THEN CallerAfterAssign(caller, o.cache)
                       ELSE caller
          /\ eventSeen' = TRUE
          /\ invals' = IF IsRuleChange(filename) THEN invals + 1 ELSE invals
          /\ invalidated' = (invalidated \/ IsRuleChange(filename))
          /\ last' = Last("watch", o, filename, "")
  /\ UNCHANGED << startup, fs, now, ticks, watcher, installed, snap,
                  snapTime >>

\* the line 'r' on standard input
KeyboardRestart ==
  /\ status = "running"
  /\ options.keyboard
  /\ invals < MaxInvals
  /\ LET o == KeyRestart(rulesCache, lastScanTime, fs)
     IN /\ rulesCache' = o.cache
        /\ lastScanTime' = o.lastScanTime
        /\ idleScans' = idleScans + o.scans
        /\ caller' = CallerAfterAssign(caller, o.cache)
        /\ last' = Last("restart", o, << >>, "r")
  /\ globalWatcher' = RestartWatcher(globalWatcher, fs)
  /\ watched' = IF globalWatcher' = "open" THEN RulesDir(options) ELSE << >>
  /\ invals' = invals + 1
  /\ invalidated' = TRUE
  /\ UNCHANGED << startup, fs, now, ticks, eventSeen, installed, snap,
                  snapTime >>

\* time passes
Tick ==
  /\ status = "running"
  /\ ticks < MaxTicks
  /\ \E d \in TickSteps : now' = now + d
  /\ ticks' = ticks + 1
  /\ last' = Idle("tick")
  /\ UNCHANGED << startup, fs, rulesCache, lastScanTime, watcher, caller,
                  history >>

\* somebody changes the rules directory
FsChange ==
  /\ status = "running"
  /\ fs' \in Filesystems \ { fs }
  /\ last' = Idle("fs")
  /\ UNCHANGED << startup, now, ticks, rulesCache, lastScanTime,
                  watcher, caller, history >>

Next ==
  \/ ListToolsRequest
  \/ CallToolRequest
  \/ WatchEvent
  \/ KeyboardRestart
  \/ Tick
  \/ FsChange

\* the cache: requests, invalidations, the clock, a changing filesystem
Spec == Init /\ [][Next]_vars

InitScan ==
  /\ fs \in ScanFilesystems
  /\ argv = << >>
  /\ env = EnvUnset
  /\ caller = NoCaller
  /\ Started

NextScan ==
  \/ ListToolsRequest
  \/ CallToolRequest

\* the scanner and the query surface: requests against one of many
\* filesystems
SpecScan == InitScan /\ [][NextScan]_vars

InitDerive ==
  /\ fs \in DeriveFilesystems
  /\ argv = << >>
  /\ env = EnvUnset
  /\ caller = NoCaller
  /\ Started

\* the key derivation: requests against one document in one group, for
\* every pair of a group name and a file name
SpecDerive == InitDerive /\ [][NextScan]_vars

path_a == <<"/","a">>
path_b == <<"/","b">>
path_env == <<"/","e","n","v">>

\* the arguments that follow the switches on the command lines of the
\* start-up specification
ArgTokens == { opt_r, opt_rules_dir, path_a, path_b }

\* the sequences of at most n such arguments
RECURSIVE ArgLists(_)
ArgLists(n) ==
  IF n = 0 THEN { << >> }
  ELSE LET shorter == ArgLists(n - 1)
       IN shorter \cup
          { Append(l, a) : l \in { x \in shorter : Len(x) = n - 1 },
                           a \in ArgTokens }

\* MCP_RULES_DIR: not set, set to the empty string, set to a path
Envs == { EnvUnset, EnvSet(<< >>), EnvSet(path_env) }

InitArgs ==
  /\ fs = FsScenario
  /\ argv \in { switches \o l : switches \in StartArgs,
                                 l \in ArgLists(MaxArgs) }
  /\ env \in Envs
  /\ caller = NoCaller
  /\ Started

NextArgs ==
  \/ ListToolsRequest
  \/ WatchEvent
  \/ KeyboardRestart

\* the start of the process: every command line and environment, then
\* requests, watch events and keyboard restarts
SpecArgs == InitArgs /\ [][NextArgs]_vars

InitHeld ==
  /\ fs \in Filesystems
  /\ argv = << opt_w, opt_k >>
  /\ env = EnvUnset
  /\ caller = KeepingCaller
  /\ Started

NextHeld ==
  \/ ListToolsRequest
  \/ CallToolRequest
  \/ WatchEvent
  \/ KeyboardRestart
  \/ FsChange

\* a caller that keeps the mapping it was given, while requests,
\* invalidations, restarts and changes of the filesystem go on
SpecHeld == InitHeld /\ [][NextHeld]_vars

(***************************************************************************)
(* Properties.  `last` describes the handler that just ran; last.pre is    *)
(* the state it started from.                                              *)
(***************************************************************************)
Range(q) == { q[i] : i \in 1..Len(q) }

\* the last step was a read() that rescanned while the root was missing and
\* a snapshot with at least one entry had been installed
RescanOfMissingRoot ==
  /\ last.read
  /\ last.scans = 1
  /\ fs.root = "missing"
  /\ last.pre.installed
  /\ Len(last.pre.snap) >= 1

\* C1 as stated: when the root directory does not exist at the moment
\* read() rescans, read() returns the previously installed snapshot, with
\* the same keys and contents, and no error reaches the caller.
C1_PriorSnapshotServed ==
  RescanOfMissingRoot =>
    /\ last.rules = last.pre.snap
    /\ last.resp.kind # "crash"

\* C1 amended: when the root directory does not exist at the moment read()
\* rescans, read() returns the empty mapping, the cache holds the empty
\* mapping afterwards (the previously installed snapshot is dropped), and
\* no error reaches the caller.
C1_MissingRootServesEmpty ==
  RescanOfMissingRoot =>
    /\ last.rules = EmptyObj
    /\ rulesCache = EmptyObj
    /\ last.resp.kind # "crash"

\* a rescan of a missing root caused by the age of a held, non-empty cache
C1_Witness == RescanOfMissingRoot /\ Len(last.pre.cache) >= 1

\* C2: after n >= 1 invalidations (file-watch callbacks that invalidate,
\* keyboard restarts) with no read() in between, the next read() runs the
\* scanner exactly once and returns, and holds, the mapping that scan
\* produced; the invalidations themselves run no scan.
C2_OneRescanAfterInvalidations ==
  /\ (last.read /\ last.pre.invals >= 1) =>
       /\ last.scans = 1
       /\ last.rules = GetProjectRules(fs).rules
       /\ rulesCache = last.rules
  /\ last.op \in { "watch", "restart" } => last.scans = 0

\* a read() after two invalidations of a snapshot installed at this very
\* clock value
C2_Witness ==
  /\ last.read
  /\ last.pre.invals >= 2
  /\ last.pre.installed
  /\ Len(last.pre.snap) >= 1
  /\ last.pre.snapTime = now
  /\ last.scans = 1

\* C3 as stated: read() invokes the scanner if and only if no snapshot has
\* been installed yet, an invalidation occurred since the last installed
\* snapshot, or now - timestamp > 5000; in every other case (also after a
\* scan that found zero entries) it returns the held snapshot and runs no
\* scan.
C3_RescanOnlyWhenStale ==
  last.read =>
    /\ last.scans = 1 <=>
         \/ ~last.pre.installed
         \/ last.pre.invalidated
         \/ now - last.pre.snapTime > TTL
    /\ last.scans = 0 => last.rules = last.pre.cache

\* C3 amended: read() invokes the scanner if and only if no snapshot has
\* been installed yet, an invalidation occurred since the last installed
\* snapshot, now - timestamp > 5000 (strictly), or the installed snapshot
\* has zero entries; in every other case, also when now - timestamp is
\* exactly 5000, it returns the held snapshot and runs no scan.
C3_RescanWhenStaleOrEmpty ==
  last.read =>
    /\ last.scans = 1 <=>
         \/ ~last.pre.installed
         \/ last.pre.invalidated
         \/ now - last.pre.snapTime > TTL
         \/ Len(last.pre.snap) = 0
    /\ last.scans = 0 =>
         /\ last.rules = last.pre.cache
         /\ last.rules = last.pre.snap

\* a read() at the age of exactly 5000 ms, served from the cache
C3_Witness ==
  /\ last.read
  /\ last.scans = 0
  /\ now - last.pre.snapTime = TTL
  /\ Len(last.rules) >= 1

\* C4: invalidate() never invokes the scanner: no scanner call is made
\* outside read(), however many change notifications arrive.
C4_InvalidateNeverScans ==
  /\ idleScans = 0
  /\ last.op \in { "watch", "restart" } => (last.scans = 0 /\ ~last.read)

\* the second invalidating change notification in a row
C4_Witness ==
  /\ last.op = "watch"
  /\ IsRuleChange(last.arg)
  /\ last.pre.invals >= 1
  /\ invals >= 2

\* C5 as stated: every change event delivered for a path under the root
\* invalidates, whatever its kind and path, so the first read() after any
\* such event rescans.
C5_EveryEventInvalidates ==
  (last.read /\ last.pre.eventSeen) => last.scans = 1

\* the request just handled was a get(k) that consulted the cache
Got == last.op = "call" /\ last.read

UnknownKey(k) == ErrorResponse("Unknown rule type", k)

\* C6: no scanner failure propagates out of the cache, whatever the
\* filesystem: listKeys() never raises, get(key) raises nothing except
\* UnknownKey, and with the root missing and no snapshot ever installed
\* read() returns the empty mapping and listKeys() exactly [ALL].
C6_NoScannerFailureEscapes ==
  /\ last.resp.kind # "crash"
  /\ last.op = "list" => last.resp.kind = "tools"
  /\ Got => (last.resp.kind = "content" \/ last.resp = UnknownKey(last.arg))
  /\ (last.op = "list" /\ fs.root = "missing" /\ ~last.pre.installed) =>
       /\ last.rules = EmptyObj
       /\ last.resp.enum = << ALL >>

\* a scan of a root that is not a directory: readdirSync throws
C6_Witness ==
  /\ last.op = "list"
  /\ last.scans = 1
  /\ fs.root = "file"
  /\ last.resp.enum = << ALL >>

\* something fails while the scanner processes this group
GroupFails(e) ==
  \/ ~e.listable
  \/ \E i \in 1..Len(e.files) :
       EndsWith(e.files[i].name, DotMd) /\ ~e.files[i].readable

\* the keys of the group's documents
GroupKeys(e) ==
  { DeriveKey(ToUpperCase(e.name), e.files[i].name) :
      i \in { j \in 1..Len(e.files) : EndsWith(e.files[j].name, DotMd) } }

\* the groups of the filesystem
Groups == { e \in Range(fs.entries) : e.isDir }

\* C7 as stated: a scan is atomic per Group: a Group in which anything
\* fails (listing it, reading one of its files) contributes zero entries,
\* every other Group contributes all of its entries, and the snapshot is
\* installed.
C7_FailingGroupContributesNothing ==
  (last.read /\ last.scans = 1 /\ fs.root = "dir") =>
    /\ \A e \in Groups :
         IF GroupFails(e)
         THEN GroupKeys(e) \cap KeySet(last.rules) = {}
         ELSE GroupKeys(e) \subseteq KeySet(last.rules)
    /\ rulesCache = last.rules

\* C8 as stated: for every string k other than ALL that is not a key of the
\* snapshot read() returned, get(k) fails with UnknownKey and returns no
\* content.
C8_UnknownKeyRejected ==
  (Got /\ last.arg # ALL /\ last.arg \notin KeySet(last.rules)) =>
    last.resp = UnknownKey(last.arg)

\* C9 as stated: for every key k of the snapshot read() returned, get(k)
\* returns exactly the content stored under k and never fails with
\* UnknownKey, also when the source file is empty.
C9_KnownKeyServed ==
  (Got /\ last.arg \in KeySet(last.rules)) =>
    /\ last.resp.kind = "content"
    /\ last.resp.text =
         [t |-> "string", v |-> last.rules[ObjIndex(last.rules, last.arg)].value]

\* what listKeys() answers in the current state
ListKeysNow == ListTools(rulesCache, lastScanTime, now, fs)

\* C10: in every reachable state listKeys() returns every key of the
\* snapshot read() returns, plus the literal ALL, and nothing else; ALL is
\* there also when the snapshot is empty.
C10_ListKeysHasAll ==
  /\ ListKeysNow.resp.kind = "tools"
  /\ Range(ListKeysNow.resp.enum) = KeySet(ListKeysNow.rules) \cup { ALL }
  /\ last.op = "list" =>
       Range(last.resp.enum) = KeySet(last.rules) \cup { ALL }

\* listKeys() just after an invalidation of a non-empty snapshot, the root
\* being gone: the answer is [ALL]
C10_Witness ==
  /\ last.op = "list"
  /\ last.pre.invals >= 1
  /\ Len(last.pre.snap) >= 1
  /\ last.rules = EmptyObj
  /\ last.resp.enum = << ALL >>

\* the positions of the text of a get("ALL") answer that hold a key
KeyPositions(text) == { i \in 1..Len(text) : text[i].piece = "key" }

\* the positions that hold the separator
SeparatorPositions(text) == { i \in 1..Len(text) : text[i] = Separator }

\* C11: get("ALL") returns the concatenation, in the iteration order of the
\* snapshot, of one section '## <key>\n\n<content>' per entry, the sections
\* joined by '\n\n---\n\n': there are as many sections as listKeys() returns
\* keys besides ALL, every key labels exactly one section, and the separator
\* stands between two sections only (none leads, none trails, none when the
\* snapshot has fewer than two entries).
C11_AllIsJoinedSections ==
  (Got /\ last.arg = ALL) =>
    LET text == last.resp.sections
        n == Len(last.rules)
    IN /\ last.resp.kind = "content"
       /\ Cardinality(KeyPositions(text)) =
            Len(AvailableRuleTypes(last.rules)) - 1
       /\ Len(text) = IF n = 0 THEN 0 ELSE 5 * n - 1
       /\ \A i \in 1..n :
            /\ SubSeq(text, 5 * i - 4, 5 * i - 1) =
                 << Lit("## "), KeyPiece(last.rules[i].key), Lit("\n\n"),
                    ContentPiece(last.rules[i].value) >>
            /\ i < n => text[5 * i] = Separator
       /\ \A k \in KeySet(last.rules) :
            Cardinality({ i \in 1..Len(text) : text[i] = KeyPiece(k) }) = 1
       /\ Cardinality(SeparatorPositions(text)) = IF n = 0 THEN 0 ELSE n - 1

\* get("ALL") on a snapshot of three entries or more
C11_Witness ==
  /\ Got
  /\ last.arg = ALL
  /\ Len(last.rules) >= 3
  /\ Cardinality(SeparatorPositions(last.resp.sections)) >= 2

\* the last step was a read() that scanned a root holding one group with
\* one readable document
ScannedOnePair ==
  /\ last.read
  /\ last.scans = 1
  /\ fs.root = "dir"
  /\ Len(fs.entries) = 1
  /\ fs.entries[1].isDir /\ fs.entries[1].listable
  /\ Len(fs.entries[1].files) = 1
  /\ fs.entries[1].files[1].readable
  /\ EndsWith(fs.entries[1].files[1].name, DotMd)

TheGroup == fs.entries[1].name

TheFile == fs.entries[1].files[1].name

\* a file name without its trailing '.md'
Stem(f) == SubSeq(f, 1, Len(f) - Len(DotMd))

README == <<"R","E","A","D","M","E">>

\* the stem is README in some letter case
StemIsReadme(f) == ToUpperCase(Stem(f)) = README

\* the snapshot holds exactly the key k
OnlyKey(k) == ObjKeys(last.rules) = << k >>

\* C12 as stated: for every group g and every file whose stem is README in
\* any letter case (README.md, readme.md, Readme.md), the key is
\* UPPER(g)-OVERVIEW.
C12_ReadmeAnyCaseIsOverview ==
  (ScannedOnePair /\ StemIsReadme(TheFile)) =>
    OnlyKey(ToUpperCase(TheGroup) \o <<"-">> \o OVERVIEW)

\* C12, amended: the file named exactly README.md gets the key
\* UPPER(g)-OVERVIEW; a file whose stem is README in another letter case is
\* an ordinary document and gets UPPER(g)-README.
C12_ExactReadmeIsOverview ==
  /\ (ScannedOnePair /\ TheFile = README_md) =>
       OnlyKey(ToUpperCase(TheGroup) \o <<"-">> \o OVERVIEW)
  /\ (ScannedOnePair /\ StemIsReadme(TheFile) /\ TheFile # README_md) =>
       OnlyKey(ToUpperCase(TheGroup) \o <<"-">> \o README)

\* a scan of Git/readme.md
C12_Witness ==
  /\ ScannedOnePair
  /\ TheGroup = Git
  /\ TheFile = readme_md
  /\ OnlyKey(<<"G","I","T","-","R","E","A","D","M","E">>)

\* C13: for every group g and every file f ending in .md that is not the
\* overview file, the key is UPPER(g), a hyphen, and the upper-cased f with
\* only its trailing .md removed, also when '.md' occurs earlier in f
\* (a.md.md, x.mdy.md).
C13_OnlyTrailingExtensionRemoved ==
  (ScannedOnePair /\ ~StemIsReadme(TheFile)) =>
    OnlyKey(ToUpperCase(TheGroup) \o <<"-">> \o ToUpperCase(Stem(TheFile)))

\* the characters of [A-Z0-9_-]
KeyChars ==
  Range(Upper) \cup {"0","1","2","3","4","5","6","7","8","9","_","-"}

\* C14: every key of every snapshot, whatever the names of the group
\* directories and of the files ending in .md, is a non-empty string of
\* characters of [A-Z0-9_-].
C14_KeysMatchPattern ==
  (last.read /\ last.scans = 1) =>
    \A k \in KeySet(last.rules) : k # << >> /\ Range(k) \subseteq KeyChars

\* C15: every entry of every snapshot has a non-empty content: the scanner
\* never installs a key whose content is the empty string.
C15_ContentNonEmpty ==
  (last.read /\ last.scans = 1) =>
    \A i \in 1..Len(last.rules) : last.rules[i].value # ""

\* the last step was a read() that scanned an existing root directory in
\* which no group failed
ScannedWithoutFailure ==
  /\ last.read
  /\ last.scans = 1
  /\ fs.root = "dir"
  /\ \A e \in Groups : ~GroupFails(e)

\* the documents of a group: the entries directly inside it whose name
\* ends in .md
Documents(e) == { f \in Range(e.files) : EndsWith(f.name, DotMd) }

\* C16: after a scan in which no group fails, the key set of the snapshot
\* is exactly { derive(g, f) : g an immediate subdirectory of the root, f an
\* entry directly inside g whose name ends in .md }, and each key maps to
\* the full text of a file that derives to it; entries of the root that are
\* no directories, files not ending in .md and directories inside a group
\* contribute nothing.
C16_SnapshotIsTheDocuments ==
  ScannedWithoutFailure =>
    /\ KeySet(last.rules) =
         { DeriveKey(ToUpperCase(e.name), f.name) :
             << e, f >> \in { p \in Groups \X UNION { Documents(g) : g \in Groups } :
                              p[2] \in Documents(p[1]) } }
    /\ \A i \in 1..Len(last.rules) :
         \E e \in Groups : \E f \in Documents(e) :
           /\ DeriveKey(ToUpperCase(e.name), f.name) = last.rules[i].key
           /\ f.content = last.rules[i].value
    /\ rulesCache = last.rules

\* a scan without failure of a root that holds a plain file and a group
\* with a document, a file of another extension and a directory
C16_Witness ==
  /\ ScannedWithoutFailure
  /\ \E e \in Range(fs.entries) : ~e.isDir
  /\ \E e \in Groups :
       /\ Documents(e) # {}
       /\ \E f \in Range(e.files) : f.readable /\ f \notin Documents(e)
       /\ \E f \in Range(e.files) : ~f.readable /\ f \notin Documents(e)
  /\ Len(last.rules) >= 2

\* the complete results of single scans
ScanResults == { GetProjectRules(f).rules : f \in Filesystems }

\* C17: under every interleaving of list/get requests, watch callbacks,
\* keyboard restarts and rescans, the mapping a request uses is the complete
\* result of one single scan or the empty mapping, never a mix of an old and
\* a new snapshot: it is the result of the scan the request itself made of
\* the filesystem as it is, or the mapping the cache held when the request
\* began, which is a complete scan result too; and the answer is computed
\* from that one mapping.
C17_RequestUsesOneSnapshot ==
  /\ rulesCache \in ScanResults \cup { EmptyObj }
  /\ last.read =>
       /\ last.rules \in ScanResults \cup { EmptyObj }
       /\ IF last.scans = 0
          THEN last.rules = last.pre.cache
          ELSE last.scans = 1 /\ last.rules = GetProjectRules(fs).rules
       /\ last.op = "list" =>
            last.resp.enum = ObjKeys(last.rules) \o << ALL >>
       /\ (last.op = "call" /\ last.arg = ALL) =>
            last.resp.sections = Join(Sections(last.rules))

\* a request that rescans, after an invalidation, a filesystem that changed
\* since the snapshot was taken: old and new snapshot both have entries and
\* differ
C17_Witness ==
  /\ last.read
  /\ last.scans = 1
  /\ last.pre.invals >= 1
  /\ Len(last.pre.snap) >= 1
  /\ Len(last.rules) >= 1
  /\ KeySet(last.rules) # KeySet(last.pre.snap)

\* C18: scan(root) on a root that does not exist or is no directory yields
\* the failure RootNotFound ('Rules directory not found'), which can be told
\* from the successful scan of an existing root that has no entries.
C18_RootNotFoundReported ==
  (last.read /\ last.scans = 1 /\ fs.root # "dir") =>
    /\ GetProjectRules(fs).threw
    /\ GetProjectRules(fs) # GetProjectRules(FsEmpty)

\* the positions of the --rules-dir / -r arguments of a command line
RulesDirPositions(args) ==
  { i \in 1..Len(args) : args[i] \in { opt_rules_dir, opt_r } }

\* the root path as C20 states it: the value following the last
\* --rules-dir / -r argument if one is given, else MCP_RULES_DIR if it is
\* set and not empty, else './rules'
ExpectedRoot(args, e) ==
  IF RulesDirPositions(args) # {}
  THEN LET i == CHOOSE j \in RulesDirPositions(args) :
                  \A k \in RulesDirPositions(args) : k <= j
       IN IF i + 1 <= Len(args) THEN args[i + 1] ELSE << >>
  ELSE IF e.set /\ e.value # << >> THEN e.value
  ELSE DefaultRulesDir

\* C20: the root path is fixed when the process starts as the value
\* following the last --rules-dir / -r argument if one is given, else
\* MCP_RULES_DIR if set and non-empty, else './rules'; every later scan and
\* every set-up of the watcher, also after a keyboard restart, uses that
\* value, and no operation changes it.
C20_RootPathFixedAtStart ==
  status = "running" =>
    /\ options.rulesDir = ExpectedRoot(argv, env)
    /\ last.scans > 0 => last.dir = ExpectedRoot(argv, env)
    /\ globalWatcher = "open" => watched = ExpectedRoot(argv, env)

\* a scan after a keyboard restart that set the watcher up again, the
\* command line naming two different directories and the environment a
\* third
C20_Witness ==
  /\ status = "running"
  /\ \E i, j \in RulesDirPositions(argv) :
       /\ i < j
       /\ argv[i + 1] # argv[j + 1]
       /\ last.dir = argv[j + 1]
       /\ watched = argv[j + 1]
  /\ env = EnvSet(path_env)
  /\ last.read /\ last.scans = 1
  /\ last.pre.invals >= 1
  /\ globalWatcher = "open"

\* the last step was an invalidation: the watch callback for a name ending
\* in .md, or the keyboard restart
JustInvalidated ==
  \/ last.op = "restart"
  \/ last.op = "watch" /\ IsRuleChange(last.arg)

\* C21 as stated: invalidate() changes only the staleness marker: the
\* mapping held as the current snapshot just before an invalidation is
\* still held afterwards, with the same keys and contents.
C21_MappingStillHeld ==
  JustInvalidated => rulesCache = last.pre.cache

\* C21, amended: invalidate() runs no scan and replaces the mapping held by
\* the empty mapping, setting lastScanTime to 0; the read() that follows
\* rescans and installs what the scan yields, whatever it is.  A watch
\* event that is no invalidation leaves mapping and lastScanTime alone.
C21_InvalidateDropsMapping ==
  /\ JustInvalidated =>
       /\ rulesCache = EmptyObj
       /\ lastScanTime = 0
       /\ last.scans = 0
  /\ (last.op = "watch" /\ ~IsRuleChange(last.arg)) =>
       /\ rulesCache = last.pre.cache
       /\ lastScanTime = last.pre.lastScanTime
  /\ (last.read /\ last.pre.invals >= 1) =>
       /\ last.pre.cache = EmptyObj
       /\ rulesCache = GetProjectRules(fs).rules

\* an invalidation of a cache that held entries
C21_Witness ==
  /\ JustInvalidated
  /\ Len(last.pre.cache) >= 1
  /\ rulesCache = EmptyObj

Enumerated ==
  { p \in UNION { { << i, j >> : j \in 1..Len(fs.entries[i].files) } :
                    i \in 1..Len(fs.entries) } :
      /\ fs.entries[p[1]].isDir
      /\ fs.entries[p[1]].listable
      /\ EndsWith(fs.entries[p[1]].files[p[2]].name, DotMd)
      /\ \A m \in 1..p[2] :
           EndsWith(fs.entries[p[1]].files[m].name, DotMd) =>
             fs.entries[p[1]].files[m].readable }

KeyAt(p) ==
  DeriveKey(ToUpperCase(fs.entries[p[1]].name),
            fs.entries[p[1]].files[p[2]].name)

ContentAt(p) == fs.entries[p[1]].files[p[2]].content

\* p comes before q in scan order
ScannedBefore(p, q) == p[1] < q[1] \/ (p[1] = q[1] /\ p[2] < q[2])

\* C23: within one snapshot keys are unique, and when two files of one scan
\* derive the same key (README.md and OVERVIEW.md in one group, groups that
\* differ in letter case only), the snapshot holds for that key the content
\* of the file enumerated last in scan order and nothing of the earlier
\* one; a collision is never an error.
C23_LastWriteWins ==
  (last.read /\ last.scans = 1 /\ fs.root = "dir") =>
    /\ \A a, b \in 1..Len(last.rules) :
         last.rules[a].key = last.rules[b].key => a = b
    /\ \A a \in 1..Len(last.rules) :
         \E p \in Enumerated :
           /\ KeyAt(p) = last.rules[a].key
           /\ \A q \in Enumerated :
                KeyAt(q) = KeyAt(p) => (q = p \/ ScannedBefore(q, p))
           /\ last.rules[a].value = ContentAt(p)
    /\ KeySet(last.rules) = { KeyAt(p) : p \in Enumerated }
    /\ last.resp.kind # "crash"
    /\ last.op = "list" => last.resp.kind = "tools"

\* a scan in which two documents of one group and a document of a group
\* whose name differs in letter case only derive one key, with three
\* different contents
C23_Witness ==
  /\ last.read /\ last.scans = 1 /\ fs.root = "dir"
  /\ \E p, q, r \in Enumerated :
       /\ p[1] = q[1] /\ p[2] < q[2] /\ q[1] < r[1]
       /\ KeyAt(p) = KeyAt(q) /\ KeyAt(q) = KeyAt(r)
       /\ ContentAt(p) # ContentAt(q) /\ ContentAt(q) # ContentAt(r)
       /\ ContentAt(p) # ContentAt(r)
       /\ \E a \in 1..Len(last.rules) :
            last.rules[a].key = KeyAt(r) /\ last.rules[a].value = ContentAt(r)

\* C24: after the keyboard command 'r' the cache is invalidated, and if
\* file watching was active before the command it is active after it, with
\* one open watcher, also when the root directory is missing at the moment
\* of the restart; if watching was never enabled, 'r' opens no watcher.
C24_RestartKeepsWatching ==
  [][KeyboardRestart =>
       /\ rulesCache' = EmptyObj
       /\ lastScanTime' = 0
       /\ globalWatcher = "open" => globalWatcher' = "open"
       /\ globalWatcher = "undefined" => globalWatcher' = "undefined"]_vars

\* C25: freshness bound, the clock not going back: every mapping read()
\* returns was produced by a scan whose recorded start time t satisfies
\* now - t <= 5000; whenever the cache holds at least one entry,
\* lastScanTime is the clock value taken at the start of the read() whose
\* scan produced the entries; so without file watching a change of the
\* filesystem is visible to the first read() issued more than 5000 ms
\* after the last scan.
C25_FreshnessBound ==
  /\ last.read =>
       /\ now - lastScanTime <= TTL
       /\ IF last.scans = 0
          THEN /\ last.rules = last.pre.cache
               /\ lastScanTime = last.pre.lastScanTime
          ELSE /\ lastScanTime = now
               /\ last.rules = GetProjectRules(fs).rules
       /\ now - last.pre.lastScanTime > TTL =>
            (last.scans = 1 /\ last.rules = GetProjectRules(fs).rules)
  /\ Len(rulesCache) >= 1 =>
       /\ lastScanTime = snapTime
       /\ rulesCache = snap
       /\ lastScanTime <= now

\* without file watching: a read() more than 5000 ms after the scan that
\* produced a snapshot with entries finds a filesystem that changed
C25_Witness ==
  /\ ~options.watch
  /\ last.read
  /\ Len(last.pre.cache) >= 1
  /\ now - last.pre.lastScanTime > TTL
  /\ last.scans = 1
  /\ Len(last.rules) >= 1
  /\ last.rules # last.pre.cache

\* C26: no derived key equals the reserved literal ALL: every key starts
\* with the non-empty upper-cased name of a group followed by '-', so
\* listKeys() contains ALL exactly once and get("ALL") is never shadowed by
\* a document.
C26_NoKeyIsAll ==
  /\ \A k \in KeySet(rulesCache) :
       /\ k # ALL
       /\ \E e \in Groups :
            /\ e.name # << >>
            /\ StartsWith(k, ToUpperCase(e.name) \o <<"-">>)
  /\ last.op = "list" =>
       Cardinality({ i \in 1..Len(last.resp.enum) :
                       last.resp.enum[i] = ALL }) = 1
  /\ (Got /\ last.arg = ALL) =>
       /\ last.resp.kind = "content"
       /\ last.resp.text.t = "sections"
       /\ last.resp.sections = Join(Sections(last.rules))

\* get("ALL") on the snapshot of a group that holds all.md
C26_Witness ==
  /\ Got
  /\ last.arg = ALL
  /\ ScannedOnePair
  /\ TheFile = all_md
  /\ Len(last.resp.sections) = 4
  /\ last.resp.sections[2].key = ToUpperCase(TheGroup) \o <<"-","A","L","L">>

\* the last step handled a call of a tool other than get_project_rules
CalledUnknownTool ==
  /\ last.op = "call"
  /\ last.name \in { "other_tool", "other_tool without rule_type" }

\* the last step handled a call of get_project_rules without rule_type
CalledWithoutRuleType ==
  /\ last.op = "call"
  /\ last.name = "get_project_rules without rule_type"

\* C27: a malformed tool call is rejected before the cache is consulted: a
\* call whose tool name is not get_project_rules fails with 'Unknown tool',
\* a get_project_rules call without a rule_type argument fails with
\* 'rule_type argument is required'; in both cases no scan runs and
\* rulesCache and lastScanTime are unchanged.
C27_MalformedCallRejectedFirst ==
  /\ CalledUnknownTool =>
       last.resp = ErrorResponse("Unknown tool", << >>)
  /\ CalledWithoutRuleType =>
       last.resp = ErrorResponse("rule_type argument is required", << >>)
  /\ (CalledUnknownTool \/ CalledWithoutRuleType) =>
       /\ last.scans = 0
       /\ ~last.read
       /\ rulesCache = last.pre.cache
       /\ lastScanTime = last.pre.lastScanTime
       /\ idleScans = 0

\* a call without rule_type when the cache holds entries older than the
\* TTL and a scan would find other entries
C27_Witness ==
  /\ CalledWithoutRuleType
  /\ Len(last.pre.cache) >= 1
  /\ now - last.pre.lastScanTime > TTL
  /\ Len(GetProjectRules(fs).rules) >= 1
  /\ GetProjectRules(fs).rules # rulesCache

====
